---- MODULE Spec2Model ----
(***************************************************************************)
(* A model of bingoloader.py: the result-message classifier, the board     *)
(* projector, the bingo eligibility filter, the version resolver and the   *)
(* batch main program (checkpoint, feed retrieval with retry, worker pool, *)
(* export).                                                                *)
(*                                                                         *)
(* Python strings are sequences of one-character strings, so that the      *)
(* regular expressions and the substring tests are computed character by   *)
(* character, as the code computes them.                                   *)
(***************************************************************************)
EXTENDS Integers, Sequences, FiniteSets, TLC

VARIABLES
    \* Result / Board (src/bingoloader.py:151-198)
    message, board, row, goals, phase,
    \* isBingoGoal / getBingoSeed (src/bingoloader.py:74-85)
    goal, isBingo, seed,
    \* getBingoVersionAt (src/bingoloader.py:103-108)
    raceDate, version,
    \* the remote feed and the two files of the main program
    feed, storeFile, outFile,
    \* one invocation of the main program (src/bingoloader.py:214-272)
    pc, lastIndex, raceCountBefore, raceJsons, bingoJsons, races, doneOrder,
    \* history of the invocation: the boards asked for, whether the fetch
    \* was retried, and the two files as the invocation found them
    boardRequests, retried, startOut, startStore

resultVars == <<message, board, row, goals>>
goalVars == <<goal, isBingo, seed>>
versionVars == <<raceDate, version>>
pureVars == <<message, board, row, goals, phase, goal, isBingo, seed,
              raceDate, version>>
envVars == <<feed, storeFile, outFile>>
runVars == <<pc, lastIndex, raceCountBefore, raceJsons, bingoJsons, races,
             doneOrder, boardRequests, retried, startOut, startStore>>
vars == <<message, board, row, goals, phase, goal, isBingo, seed, raceDate,
          version, feed, storeFile, outFile, pc, lastIndex, raceCountBefore,
          raceJsons, bingoJsons, races, doneOrder, boardRequests, retried,
          startOut, startStore>>

----------------------------------------------------------------------------
(* Bounds of the model.                                                    *)

\* a message is the concatenation of at most MaxFrags fragments
MaxFrags == 3
\* a goal text is the concatenation of at most MaxGoalFrags fragments
MaxGoalFrags == 3
\* boards are goalsList[i] = (step * i + shift) % BoardModulus
MaxBoardStep == 3
MaxBoardShift == 2
BoardModulus == 29
\* race dates lie within MaxOffset seconds of a release date
MaxOffset == 3
\* races the feed gains beyond DEFAULT_START
MaxRaces == 3
\* the same in the specification whose feed also loses races
MaxFairRaces == 1

----------------------------------------------------------------------------
(* Python values and string operations.                                    *)

\* Python's None, where a string (a sequence of characters) is expected
None == <<"None">>

\* STORE_FILE when os.path.isfile(STORE_FILE) is false; <<n>> once it holds n
NoFile == <<>>

Min(S) == CHOOSE x \in S : \A y \in S : x <= y
Max(S) == CHOOSE x \in S : \A y \in S : x >= y

UpperCase == <<"A", "B", "C", "D", "E", "F", "G", "H", "I", "J", "K", "L", "M",
               "N", "O", "P", "Q", "R", "S", "T", "U", "V", "W", "X", "Y", "Z">>
LowerCase == <<"a", "b", "c", "d", "e", "f", "g", "h", "i", "j", "k", "l", "m",
               "n", "o", "p", "q", "r", "s", "t", "u", "v", "w", "x", "y", "z">>

\* str.lower() of one character; re.IGNORECASE compares as if lowered
LowerChar(ch) ==
    IF \E i \in 1..26 : UpperCase[i] = ch
    THEN LowerCase[CHOOSE i \in 1..26 : UpperCase[i] = ch]
    ELSE ch

\* str.lower()
lower(s) == [i \in 1..Len(s) |-> LowerChar(s[i])]

\* the characters \s matches
Whitespace == {" ", "\t", "\n", "\r", "\f"}

\* the literal lit stands in s at position p (1-based), case-sensitively
LitAt(s, p, lit) ==
    /\ p >= 1
    /\ p + Len(lit) - 1 <= Len(s)
    /\ \A k \in 1..Len(lit) : s[p + k - 1] = lit[k]

\* the same under re.IGNORECASE (lit is lower-case)
LitAtIgnoreCase(s, p, lit) ==
    /\ p >= 1
    /\ p + Len(lit) - 1 <= Len(s)
    /\ \A k \in 1..Len(lit) : LowerChar(s[p + k - 1]) = lit[k]

\* Python's `lit in s`
Contains(s, lit) == \E p \in 1..(Len(s) + 1) : LitAt(s, p, lit)

\* no character of s[from..to-1] is a newline: what `.*` can run over
NoNewline(s, from, to) == \A k \in from..(to - 1) : s[k] # "\n"

\* the position after a greedy \s* begun at p
RECURSIVE SkipSpace(_, _)
SkipSpace(s, p) ==
    IF p <= Len(s) /\ s[p] \in Whitespace THEN SkipSpace(s, p + 1) ELSE p

\* int() of one decimal digit
DigitChars == <<"0", "1", "2", "3", "4", "5", "6", "7", "8", "9">>
int(ch) == (CHOOSE i \in 1..10 : DigitChars[i] = ch) - 1

\* Python's s[a:b] for 0 <= a <= b: the slice is clamped to the list
PySlice(s, a, b) == SubSeq(s, a + 1, IF b <= Len(s) THEN b ELSE Len(s))

----------------------------------------------------------------------------
(* ROW_REGEX, BLTR_REGEX, TLBR_REGEX (src/bingoloader.py:147-149).         *)

\* the alternatives of (r|c|row|col|column), in the order the engine tries
ROW_TOKENS == << <<"r">>, <<"c">>, <<"r", "o", "w">>, <<"c", "o", "l">>,
                 <<"c", "o", "l", "u", "m", "n">> >>

\* the character class [1-5]
ROW_DIGITS == {"1", "2", "3", "4", "5"}

\* alternative k followed by \s*([1-5]) matches at p
RowAltMatches(s, p, k) ==
    /\ LitAtIgnoreCase(s, p, ROW_TOKENS[k])
    /\ LET q == SkipSpace(s, p + Len(ROW_TOKENS[k]))
       IN  q <= Len(s) /\ s[q] \in ROW_DIGITS

\* the first alternative that matches at p, 0 when none does
RowAltAt(s, p) ==
    IF \E k \in 1..5 : RowAltMatches(s, p, k)
    THEN Min({k \in 1..5 : RowAltMatches(s, p, k)})
    ELSE 0

NoMatch == [found |-> FALSE, groups |-> <<>>]

\* ROW_REGEX.search(s): the leftmost start, the longest `.*` from it (which
\* stops at a newline), the first alternative there; groups() is the token
\* as written and the digit
ROW_REGEX_search(s) ==
    LET ends == {p \in 1..Len(s) : RowAltAt(s, p) > 0}
        Reach(st) == {p \in ends : p >= st /\ NoNewline(s, st, p)}
        starts == {st \in 1..Len(s) : Reach(st) # {}}
    IN  IF starts = {} THEN NoMatch
        ELSE LET st == Min(starts)
                 p == Max(Reach(st))
                 tok == ROW_TOKENS[RowAltAt(s, p)]
                 q == SkipSpace(s, p + Len(tok))
             IN  [found |-> TRUE,
                  groups |-> <<SubSeq(s, p, p + Len(tok) - 1), s[q]>>]

\* .*<a>(-|\s)?<b> searched in s, under re.IGNORECASE
DiagSearch(s, a, b) ==
    \E p \in 1..Len(s) :
        /\ LitAtIgnoreCase(s, p, a)
        /\ \/ LitAtIgnoreCase(s, p + Len(a), b)
           \/ /\ p + Len(a) <= Len(s)
              /\ s[p + Len(a)] \in Whitespace \cup {"-"}
              /\ LitAtIgnoreCase(s, p + Len(a) + 1, b)

BLTR_REGEX_search(s) == DiagSearch(s, <<"b", "l">>, <<"t", "r">>)
TLBR_REGEX_search(s) == DiagSearch(s, <<"t", "l">>, <<"b", "r">>)

----------------------------------------------------------------------------
(* Result.__init__ (src/bingoloader.py:152-173): the line label.           *)

UNKNOWN == <<"-", "-", "-">>
BLTR == <<"B", "L", "-", "T", "R">>
TLBR == <<"T", "L", "-", "B", "R">>
ROW_PREFIX == <<"R", "O", "W", " ">>
COL_PREFIX == <<"C", "O", "L", " ">>

\* sum(1 for el in [row_result, bltr_result, tlbr_result] if el)
MatchCount(row_result, bltr_result, tlbr_result) ==
    (IF row_result.found THEN 1 ELSE 0) + (IF bltr_result THEN 1 ELSE 0)
        + (IF tlbr_result THEN 1 ELSE 0)

\* a mutation of ResultRow: the first test that matches wins
ResultRowFirstWins(msg) ==
    LET row_result == ROW_REGEX_search(msg)
    IN  IF row_result.found
        THEN (IF \E i \in 1..Len(row_result.groups[1]) :
                     LowerChar(row_result.groups[1][i]) = "r"
              THEN ROW_PREFIX \o <<row_result.groups[2]>>
              ELSE COL_PREFIX \o <<row_result.groups[2]>>)
        ELSE IF BLTR_REGEX_search(msg) THEN BLTR
        ELSE IF TLBR_REGEX_search(msg) THEN TLBR
        ELSE UNKNOWN

\* a mutation of ResultRow: the letter test reads "c" for a row
ResultRowSwapped(msg) ==
    LET row_result == ROW_REGEX_search(msg)
        bltr_result == BLTR_REGEX_search(msg)
        tlbr_result == TLBR_REGEX_search(msg)
    IN  IF MatchCount(row_result, bltr_result, tlbr_result) # 1 THEN UNKNOWN
        ELSE IF row_result.found
        THEN (IF \E i \in 1..Len(row_result.groups[1]) :
                     LowerChar(row_result.groups[1][i]) = "c"
              THEN ROW_PREFIX \o <<row_result.groups[2]>>
              ELSE COL_PREFIX \o <<row_result.groups[2]>>)
        ELSE IF bltr_result THEN BLTR
        ELSE TLBR

\* self.row, as Result.__init__ sets it from self.message
ResultRow(msg) ==
    LET row_result == ROW_REGEX_search(msg)
        bltr_result == BLTR_REGEX_search(msg)
        tlbr_result == TLBR_REGEX_search(msg)
    IN  IF MatchCount(row_result, bltr_result, tlbr_result) # 1 THEN UNKNOWN
        ELSE IF row_result.found
        THEN (IF Contains(lower(row_result.groups[1]), <<"r">>)
              THEN ROW_PREFIX \o <<row_result.groups[2]>>
              ELSE COL_PREFIX \o <<row_result.groups[2]>>)
        ELSE IF bltr_result THEN BLTR
        ELSE IF tlbr_result THEN TLBR
        ELSE <<"T", "h", "i", "s", " ", "s", "h", "o", "u", "l", "d", " ",
               "n", "e", "v", "e", "r", " ", "h", "a", "p", "p", "e", "n">>

----------------------------------------------------------------------------
(* Board (src/bingoloader.py:179-198).                                     *)

\* self.goalsGrid: the flat list sliced into five rows, indexed from 0
goalsGrid(goalsList) ==
    [r \in 0..4 |-> PySlice(goalsList, r * 5, r * 5 + 5)]

\* grid[r][c] with both indices from 0
GridAt(grid, r, c) == grid[r][c + 1]

\* a mutation of getGoalsFromRowString: BL-TR read from the top-right down
getGoalsFromRowStringMirrored(goalsList, rowString) ==
    LET grid == goalsGrid(goalsList)
        last == rowString[Len(rowString)]
    IN  IF Contains(rowString, <<"R", "O", "W">>) THEN grid[int(last) - 1]
        ELSE IF Contains(rowString, <<"C", "O", "L">>)
        THEN [k \in 1..5 |-> GridAt(grid, k - 1, int(last) - 1)]
        ELSE IF rowString = TLBR
        THEN [k \in 1..5 |-> GridAt(grid, k - 1, k - 1)]
        ELSE IF rowString = BLTR
        THEN [k \in 1..5 |-> GridAt(grid, k - 1, 4 - (k - 1))]
        ELSE <<>>

\* Board.getGoalsFromRowString
getGoalsFromRowString(goalsList, rowString) ==
    LET grid == goalsGrid(goalsList)
        last == rowString[Len(rowString)]
    IN  IF Contains(rowString, <<"R", "O", "W">>) THEN grid[int(last) - 1]
        ELSE IF Contains(rowString, <<"C", "O", "L">>)
        THEN [k \in 1..5 |-> GridAt(grid, k - 1, int(last) - 1)]
        ELSE IF rowString = TLBR
        THEN [k \in 1..5 |-> GridAt(grid, k - 1, k - 1)]
        ELSE IF rowString = BLTR
        THEN [k \in 1..5 |-> GridAt(grid, 4 - (k - 1), k - 1)]
        ELSE <<>>

----------------------------------------------------------------------------
(* isBingoGoal and getBingoSeed (src/bingoloader.py:71-85).                *)

HOST == <<"s", "p", "e", "e", "d", "r", "u", "n", "s", "l", "i", "v", "e">>
PATH == <<"c", "o", "m", "/", "t", "o", "o", "l", "s", "/", "o", "o", "t",
        "-", "b", "i", "n", "g", "o">>

\* IS_BINGO_REGEX.match(s): .*speedrunslive.com/tools/oot-bingo.* from the
\* start of s; each `.` is any character but a newline
IS_BINGO_REGEX_match(s) ==
    \E p \in 1..Len(s) :
        /\ NoNewline(s, 1, p)
        /\ LitAt(s, p, HOST)
        /\ p + Len(HOST) <= Len(s)
        /\ s[p + Len(HOST)] # "\n"
        /\ LitAt(s, p + Len(HOST) + 1, PATH)

\* a mutation of isBingoGoal: the "anti" test is left out
isBingoGoalNoAnti(g) ==
    LET lg == lower(g)
    IN  /\ IS_BINGO_REGEX_match(lg)
        /\ ~Contains(lg, <<"s", "h", "o", "r", "t">>)
        /\ ~Contains(lg, <<"b", "l", "a", "c", "k", "o", "u", "t">>)
        /\ ~Contains(lg, <<"d", "o", "u", "b", "l", "e">>)

\* isBingoGoal(goal), as a truth value
isBingoGoal(g) ==
    LET lg == lower(g)
        isBingo_ == IS_BINGO_REGEX_match(lg)
        short == Contains(lg, <<"s", "h", "o", "r", "t">>)
        blackout == Contains(lg, <<"b", "l", "a", "c", "k", "o", "u", "t">>)
        double == Contains(lg, <<"d", "o", "u", "b", "l", "e">>)
                    \/ Contains(lg, <<"a", "n", "t", "i">>)
    IN  isBingo_ /\ ~short /\ ~blackout /\ ~double

\* the end of the run of [0-9] that begins at p (the position after it)
RECURSIVE SkipDigits(_, _)
SkipDigits(s, p) ==
    IF p <= Len(s) /\ (\E i \in 1..10 : DigitChars[i] = s[p])
    THEN SkipDigits(s, p + 1)
    ELSE p

SEED_EQ == <<"s", "e", "e", "d", "=">>

\* getBingoSeed(goal): group 1 of BINGO_SEED_REGEX.search(goal), \?.*seed=([0-9]+):
\* the leftmost "?", the longest `.*` after it, the longest run of digits;
\* None without a match
getBingoSeed(g) ==
    LET SeedAt(q) == LitAt(g, q, SEED_EQ)
                       /\ SkipDigits(g, q + Len(SEED_EQ)) > q + Len(SEED_EQ)
        Reach(st) == {q \in (st + 1)..Len(g) : SeedAt(q) /\ NoNewline(g, st + 1, q)}
        starts == {st \in 1..Len(g) : g[st] = "?" /\ Reach(st) # {}}
    IN  IF starts = {} THEN None
        ELSE LET q == Max(Reach(Min(starts)))
             IN  SubSeq(g, q + Len(SEED_EQ), SkipDigits(g, q + Len(SEED_EQ)) - 1)

----------------------------------------------------------------------------
(* BINGO_VERSIONS and getBingoVersionAt (src/bingoloader.py:90-108).       *)

\* seconds in a day: datetimes are seconds since datetime(2013, 9, 11)
DAY == 86400

\* (release date, version), the most recent first
BINGO_VERSIONS ==
    << <<1022 * DAY, "v9.1">>,   \* datetime(2016, 6, 29)
       <<940 * DAY, "v9.0">>,    \* datetime(2016, 4, 8)
       <<870 * DAY, "v8.5">>,    \* datetime(2016, 1, 29)
       <<458 * DAY, "v8.4">>,    \* datetime(2014, 12, 13)
       <<344 * DAY, "v8.3">>,    \* datetime(2014, 8, 21)
       <<275 * DAY, "v8.2">>,    \* datetime(2014, 6, 13)
       <<92 * DAY, "v8.1">>,     \* datetime(2013, 12, 12)
       <<0 * DAY, "v8">> >>      \* datetime(2013, 9, 11)

CURRENT_VERSION == BINGO_VERSIONS[1][2]

\* the loop of getBingoVersionAt from entry i on
RECURSIVE VersionScan(_, _)
VersionScan(d, i) ==
    IF i > Len(BINGO_VERSIONS) THEN CURRENT_VERSION
    ELSE IF d > BINGO_VERSIONS[i][1] THEN BINGO_VERSIONS[i][2]
    ELSE VersionScan(d, i + 1)

\* a mutation of getBingoVersionAt: a release date counts from its own instant
RECURSIVE VersionScanInclusive(_, _)
VersionScanInclusive(d, i) ==
    IF i > Len(BINGO_VERSIONS) THEN CURRENT_VERSION
    ELSE IF d >= BINGO_VERSIONS[i][1] THEN BINGO_VERSIONS[i][2]
    ELSE VersionScanInclusive(d, i + 1)

getBingoVersionAtInclusive(d) == VersionScanInclusive(d, 1)

getBingoVersionAt(d) == VersionScan(d, 1)

----------------------------------------------------------------------------
(* Inputs of the pure functions.                                           *)

\* all concatenations of at most n fragments of F
RECURSIVE Concats(_, _)
Concats(F, n) ==
    IF n = 0 THEN {<<>>}
    ELSE LET prev == Concats(F, n - 1)
         IN  prev \cup {m \o f : m \in prev, f \in F}

\* the vocabulary of result messages
MessageFragments ==
    { <<"r">>, <<"R">>, <<"r", "o", "w">>, <<"c">>, <<"c", "o", "l">>,
      <<"C", "o", "l", "u", "m", "n">>, <<"b", "l">>, <<"t", "r">>,
      <<"t", "l", "-", "b", "r">>, <<"-">>, <<" ">>, <<"\n">>, <<"x">>,
      <<"1">>, <<"3">>, <<"5">>, <<"6">> }

Messages == Concats(MessageFragments, MaxFrags)

\* a board of 25 goal names (numbers stand for the names)
Boards ==
    { [i \in 1..25 |-> (step * i + shift) % BoardModulus] :
        step \in 1..MaxBoardStep, shift \in 0..MaxBoardShift }

\* the board whose goal at flat index i is i
PlainBoard == [i \in 1..25 |-> i % BoardModulus]

\* the labels Result.__init__ produces
LineLabels ==
    {ROW_PREFIX \o <<DigitChars[n + 1]>> : n \in 1..5}
        \cup {COL_PREFIX \o <<DigitChars[n + 1]>> : n \in 1..5}
        \cup {TLBR, BLTR, UNKNOWN}

\* the values of the variables a specification does not use
IdleResult ==
    /\ message = <<>>
    /\ board = PlainBoard
    /\ row = <<>>
    /\ goals = <<>>
IdleGoal ==
    /\ goal = <<>>
    /\ isBingo = FALSE
    /\ seed = None
IdleVersion ==
    /\ raceDate = 0
    /\ version = ""
IdleMain ==
    /\ feed = <<>>
    /\ storeFile = NoFile
    /\ outFile = <<>>
    /\ pc = "idle"
    /\ lastIndex = 0
    /\ raceCountBefore = 0
    /\ raceJsons = <<>>
    /\ bingoJsons = <<>>
    /\ races = <<>>
    /\ doneOrder = <<>>
    /\ boardRequests = {}
    /\ retried = FALSE
    /\ startOut = <<>>
    /\ startStore = NoFile

----------------------------------------------------------------------------
(* Result(resultJson, board): classify the message, project the label.     *)

InitResult ==
    /\ message \in Messages
    /\ board = PlainBoard
    /\ row = <<>>
    /\ goals = <<>>
    /\ phase = "input"
    /\ IdleGoal /\ IdleVersion /\ IdleMain

\* Result.__init__ (src/bingoloader.py:152-173)
ResultInit ==
    /\ phase = "input"
    /\ row' = ResultRow(message)
    /\ goals' = getGoalsFromRowString(board, row')
    /\ phase' = "done"
    /\ UNCHANGED <<message, board, goalVars, versionVars, envVars, runVars>>

SpecResult == InitResult /\ [][ResultInit]_vars

----------------------------------------------------------------------------
(* Board.getGoalsFromRowString on every board and label.                   *)

InitBoard ==
    /\ message = <<>>
    /\ board \in Boards
    /\ row = <<>>
    /\ goals = <<>>
    /\ phase = "input"
    /\ IdleGoal /\ IdleVersion /\ IdleMain

GetGoals ==
    /\ phase = "input"
    /\ \E rowString \in LineLabels :
        /\ row' = rowString
        /\ goals' = getGoalsFromRowString(board, rowString)
    /\ phase' = "done"
    /\ UNCHANGED <<message, board, goalVars, versionVars, envVars, runVars>>

SpecBoard == InitBoard /\ [][GetGoals]_vars

----------------------------------------------------------------------------
(* Claims about the classifier.                                            *)

\* the token tok, optional whitespace, then a digit 1-5 stand at p
PhraseAt(msg, p, tok) ==
    /\ LitAtIgnoreCase(msg, p, tok)
    /\ \E q \in (p + Len(tok))..Len(msg) :
        /\ \A k \in (p + Len(tok))..(q - 1) : msg[k] \in Whitespace
        /\ msg[q] \in {"1", "2", "3", "4", "5"}

\* the digit of the phrase at p
PhraseDigit(msg, p, tok) ==
    msg[CHOOSE q \in (p + Len(tok))..Len(msg) :
            /\ \A k \in (p + Len(tok))..(q - 1) : msg[k] \in Whitespace
            /\ msg[q] \in {"1", "2", "3", "4", "5"}]

RowTokens == { <<"r">>, <<"r", "o", "w">> }
ColTokens == { <<"c">>, <<"c", "o", "l">>, <<"c", "o", "l", "u", "m", "n">> }

\* the row/column phrases of a message: <<position, token>>
Phrases(msg) ==
    {pt \in (1..Len(msg)) \X (RowTokens \cup ColTokens) :
        PhraseAt(msg, pt[1], pt[2])}

\* the marker a, an optional hyphen or whitespace character, then b
HasMarker(msg, a, b) ==
    \E p \in 1..Len(msg) :
        /\ LitAtIgnoreCase(msg, p, a)
        /\ \/ LitAtIgnoreCase(msg, p + Len(a), b)
           \/ \E sep \in Whitespace \cup {"-"} :
                LitAtIgnoreCase(msg, p + Len(a), <<sep>> \o b)

HasBLTR(msg) == HasMarker(msg, <<"b", "l">>, <<"t", "r">>)
HasTLBR(msg) == HasMarker(msg, <<"t", "l">>, <<"b", "r">>)

TestsMatching(msg) ==
    (IF Phrases(msg) # {} THEN 1 ELSE 0) + (IF HasBLTR(msg) THEN 1 ELSE 0)
        + (IF HasTLBR(msg) THEN 1 ELSE 0)

\* C1: the label is a confident line (ROW n, COL n, TL-BR, BL-TR) exactly
\* when exactly one of the three tests matches the message, a diagonal label
\* being the one of the only test that matched; with no test or more than
\* one test matching, the label is the unknown label "---".
C1_ExactlyOneTest ==
    phase = "done" =>
        /\ (TestsMatching(message) = 1) <=> (row \in LineLabels \ {UNKNOWN})
        /\ (TestsMatching(message) # 1) => (row = UNKNOWN)
        /\ (row = TLBR) => HasTLBR(message)
        /\ (row = BLTR) => HasBLTR(message)
        /\ (row \notin {TLBR, BLTR, UNKNOWN}) => (Phrases(message) # {})

\* a message with a row phrase and a diagonal marker was classified unknown
C1_Witness ==
    /\ phase = "done"
    /\ Phrases(message) # {}
    /\ HasTLBR(message)
    /\ row = UNKNOWN

\* the label the claim expects for a token and a digit
ExpectedLabel(tok, digit) ==
    (IF tok \in RowTokens THEN ROW_PREFIX ELSE COL_PREFIX) \o <<digit>>

\* C2 (amended): a message with exactly one row/column phrase, the token
\* followed at once by optional whitespace and a digit 1-5, and with no
\* diagonal marker, is labelled ROW n for r/row and COL n for c/col/column,
\* n being the digit of the phrase.
C2_RowColumnLabel ==
    (/\ phase = "done"
     /\ Cardinality(Phrases(message)) = 1
     /\ ~HasBLTR(message)
     /\ ~HasTLBR(message))
    => \A pt \in Phrases(message) :
         row = ExpectedLabel(pt[2], PhraseDigit(message, pt[1], pt[2]))

\* "Column 5" alone was labelled COL 5
C2_Witness ==
    /\ phase = "done"
    /\ Cardinality(Phrases(message)) = 1
    /\ \E pt \in Phrases(message) : Len(pt[2]) = 6
    /\ ~HasBLTR(message)
    /\ ~HasTLBR(message)
    /\ row = COL_PREFIX \o <<"5">>

\* the phrases of C2 as first stated: the token, optional whitespace, then a
\* digit 1-5 anywhere later in the message: <<position, token, digit place>>
LoosePhrases(msg) ==
    {ptq \in (1..Len(msg)) \X (RowTokens \cup ColTokens) \X (1..Len(msg)) :
        /\ LitAtIgnoreCase(msg, ptq[1], ptq[2])
        /\ ptq[3] >= ptq[1] + Len(ptq[2])
        /\ msg[ptq[3]] \in {"1", "2", "3", "4", "5"}}

\* C2 as first stated: with exactly one such phrase and no diagonal marker
\* the label is ROW n or COL n after the token and the digit.
C2_Original ==
    (/\ phase = "done"
     /\ Cardinality(LoosePhrases(message)) = 1
     /\ ~HasBLTR(message)
     /\ ~HasTLBR(message))
    => \A ptq \in LoosePhrases(message) :
         row = ExpectedLabel(ptq[2], message[ptq[3]])

----------------------------------------------------------------------------
(* Claims about the board projector.                                       *)

\* the goal at grid position (r, c), both from 0, of a row-major flat list
Cell(goalsList, r, c) == goalsList[5 * r + c + 1]

LabelOf(prefix, n) == prefix \o <<DigitChars[n + 1]>>

\* C3: on a board of 25 goals, ROW n gives grid row n-1 left to right,
\* COL n the goals at (0,n-1)..(4,n-1), TL-BR those at (0,0)..(4,4), BL-TR
\* those at (4,0),(3,1),(2,2),(1,3),(0,4), and the unknown label the empty
\* list: five goals for every label but the unknown one.
C3_Projection ==
    phase = "done" =>
        /\ \A n \in 1..5 :
            /\ row = LabelOf(ROW_PREFIX, n) =>
                 goals = [k \in 1..5 |-> Cell(board, n - 1, k - 1)]
            /\ row = LabelOf(COL_PREFIX, n) =>
                 goals = [k \in 1..5 |-> Cell(board, k - 1, n - 1)]
        /\ row = TLBR =>
             goals = <<Cell(board, 0, 0), Cell(board, 1, 1), Cell(board, 2, 2),
                       Cell(board, 3, 3), Cell(board, 4, 4)>>
        /\ row = BLTR =>
             goals = <<Cell(board, 4, 0), Cell(board, 3, 1), Cell(board, 2, 2),
                       Cell(board, 1, 3), Cell(board, 0, 4)>>
        /\ row = UNKNOWN => goals = <<>>
        /\ Len(goals) = (IF row = UNKNOWN THEN 0 ELSE 5)

\* BL-TR was projected on a board whose two diagonal ends differ
C3_Witness ==
    /\ phase = "done"
    /\ Len(board) = 25
    /\ row = BLTR
    /\ Len(goals) = 5
    /\ goals[1] # goals[5]

----------------------------------------------------------------------------
(* isBingoGoal and getBingoSeed on goal texts.                             *)

\* the vocabulary of goal texts
GoalFragments ==
    { <<"h", "t", "t", "p", ":", "/", "/", "w", "w", "w", ".", "S", "p",
      "e", "e", "d", "R", "u", "n", "s", "L", "i", "v", "e", ".", "c", "o",
      "m", "/", "t", "o", "o", "l", "s", "/", "o", "o", "t", "-", "b", "i",
      "n", "g", "o", "/">>,
      <<"s", "p", "e", "e", "d", "r", "u", "n", "s", "l", "i", "v", "e">>,
      <<"c", "o", "m", "/", "t", "o", "o", "l", "s", "/", "o", "o", "t",
      "-", "b", "i", "n", "g", "o">>,
      <<".">>, <<"x">>, <<"\n">>, <<"?", "s", "e", "e", "d", "=">>, <<"7">>,
      <<"S", "h", "o", "r", "t">>, <<"b", "l", "a", "c", "k", "o", "u", "t">>,
      <<"d", "o", "u", "b", "l", "e">>, <<"a", "n", "t", "i">> }

GoalTexts == Concats(GoalFragments, MaxGoalFrags)

InitGoal ==
    /\ goal \in GoalTexts
    /\ isBingo = FALSE
    /\ seed = None
    /\ phase = "input"
    /\ IdleResult /\ IdleVersion /\ IdleMain

\* the two tests a race's goal goes through: isBingoGoal in filterNonBingos
\* (src/bingoloader.py:69) and getBingoSeed in Race.__init__ (line 115)
CheckGoal ==
    /\ phase = "input"
    /\ isBingo' = isBingoGoal(goal)
    /\ seed' = getBingoSeed(goal)
    /\ phase' = "done"
    /\ UNCHANGED <<goal, resultVars, versionVars, envVars, runVars>>

SpecGoal == InitGoal /\ [][CheckGoal]_vars

\* one of the excluded substrings is in the lower-cased text
HasExcluded(lg) ==
    \E w \in { <<"s", "h", "o", "r", "t">>,
               <<"b", "l", "a", "c", "k", "o", "u", "t">>,
               <<"d", "o", "u", "b", "l", "e">>, <<"a", "n", "t", "i">> } :
        \E p \in 1..(Len(lg) - Len(w) + 1) : SubSeq(lg, p, p + Len(w) - 1) = w

\* the tool's address stands at p of the lower-cased text: speedrunslive,
\* any one character, com/tools/oot-bingo
ToolUrlAt(lg, p) ==
    /\ p + 32 <= Len(lg)
    /\ SubSeq(lg, p, p + 12) = HOST
    /\ SubSeq(lg, p + 14, p + 32) = PATH

\* a seed= parameter with at least one digit stands at q
SeedParamAt(lg, q) ==
    /\ q + 5 <= Len(lg)
    /\ SubSeq(lg, q, q + 4) = SEED_EQ
    /\ lg[q + 5] \in {"0", "1", "2", "3", "4", "5", "6", "7", "8", "9"}

\* C4 (amended): isBingoGoal accepts a goal exactly when the first line of
\* the lower-cased text holds the tool's address (speedrunslive, one more
\* character, com/tools/oot-bingo) and the lower-cased text holds none of
\* "short", "blackout", "double", "anti"; a seed= parameter is not asked for.
C4_Eligible ==
    phase = "done" =>
        (isBingo <=>
            /\ \E p \in 1..Len(goal) :
                 /\ ToolUrlAt(lower(goal), p)
                 /\ \A k \in 1..(p + 13) : goal[k] # "\n"
            /\ ~HasExcluded(lower(goal)))

\* a goal with the tool's address and no seed= parameter was accepted
C4_Witness ==
    /\ phase = "done"
    /\ isBingo
    /\ seed = None
    /\ \A q \in 1..Len(goal) : ~SeedParamAt(lower(goal), q)

\* C4 as first stated: accepted exactly when the lower-cased text has the
\* tool's address followed by a seed= parameter with digits, and none of the
\* excluded substrings.
C4_Original ==
    phase = "done" =>
        (isBingo <=>
            /\ \E p \in 1..Len(goal) :
                 /\ ToolUrlAt(lower(goal), p)
                 /\ \E q \in (p + 33)..Len(goal) : SeedParamAt(lower(goal), q)
            /\ ~HasExcluded(lower(goal)))

----------------------------------------------------------------------------
(* getBingoVersionAt on race dates.                                        *)

RaceDates ==
    {BINGO_VERSIONS[i][1] + k :
        i \in 1..Len(BINGO_VERSIONS), k \in (0 - MaxOffset)..MaxOffset}

InitVersion ==
    /\ raceDate \in RaceDates
    /\ version = ""
    /\ phase = "input"
    /\ IdleResult /\ IdleGoal /\ IdleMain

\* self.version = getBingoVersionAt(self.date) (src/bingoloader.py:116)
ResolveVersion ==
    /\ phase = "input"
    /\ version' = getBingoVersionAt(raceDate)
    /\ phase' = "done"
    /\ UNCHANGED <<raceDate, resultVars, goalVars, envVars, runVars>>

SpecVersion == InitVersion /\ [][ResolveVersion]_vars

\* the entries released strictly before d
Before(d) == {i \in 1..Len(BINGO_VERSIONS) : BINGO_VERSIONS[i][1] < d}

\* C6: the version of a race date is the tag of the entry with the latest
\* release date strictly before it (so a race at a release instant gets the
\* version before that release), and the most recent tag when no release
\* date is strictly before it.
C6_Version ==
    phase = "done" =>
        /\ Before(raceDate) # {} =>
             \E i \in Before(raceDate) :
                /\ \A j \in Before(raceDate) :
                     BINGO_VERSIONS[j][1] <= BINGO_VERSIONS[i][1]
                /\ version = BINGO_VERSIONS[i][2]
        /\ Before(raceDate) = {} => version = "v9.1"
        /\ \A i \in 1..(Len(BINGO_VERSIONS) - 1) :
             raceDate = BINGO_VERSIONS[i][1] =>
                version = BINGO_VERSIONS[i + 1][2]

\* a race at the release instant of v9.0 was given v8.5
C6_Witness ==
    /\ phase = "done"
    /\ raceDate = BINGO_VERSIONS[2][1]
    /\ version = "v8.5"

----------------------------------------------------------------------------
(* The main program (src/bingoloader.py:201-272) and the remote feed.      *)

NUM_THREADS == 16
DEFAULT_START == 12000

\* the races the feed can gain: a bingo with a seed, a bingo address without
\* a seed and a race of another goal
BINGO_GOAL ==
    <<"h", "t", "t", "p", ":", "/", "/", "w", "w", "w", ".", "s", "p", "e",
    "e", "d", "r", "u", "n", "s", "l", "i", "v", "e", ".", "c", "o", "m",
    "/", "t", "o", "o", "l", "s", "/", "o", "o", "t", "-", "b", "i", "n",
    "g", "o", "/", "?", "s", "e", "e", "d", "=", "7">>
SEEDLESS_GOAL ==
    <<"s", "p", "e", "e", "d", "r", "u", "n", "s", "l", "i", "v", "e", ".",
    "c", "o", "m", "/", "t", "o", "o", "l", "s", "/", "o", "o", "t", "-",
    "b", "i", "n", "g", "o">>
OTHER_GOAL == <<"a", "n", "y", "%">>

RaceChoices ==
    { [goal |-> BINGO_GOAL, date |-> 1022 * DAY + 1],
      [goal |-> SEEDLESS_GOAL, date |-> 940 * DAY],
      [goal |-> OTHER_GOAL, date |-> 458 * DAY + 1] }

\* a race the feed held before the model's first one
OldRace == [goal |-> OTHER_GOAL, date |-> 0]

\* getRaceCount(): the feed's "count"
getRaceCount == DEFAULT_START + Len(feed)

\* the race of index i in the feed (i = 1 is the oldest), with its id
RaceJson(i) ==
    LET r == IF i > DEFAULT_START THEN feed[i - DEFAULT_START] ELSE OldRace
    IN  [id |-> i, goal |-> r.goal, date |-> r.date]

\* loadJsonFromUrl(RACES_URL + "&pageSize=" + n)["pastraces"]: the n most
\* recent races, the most recent first
PastRaces(n) == [k \in 1..n |-> RaceJson(getRaceCount - k + 1)]

\* filterNonBingos(raceJsons): the races whose goal passes isBingoGoal, in
\* the order of the list
RECURSIVE filterNonBingos(_)
filterNonBingos(jsons) ==
    IF jsons = <<>> THEN <<>>
    ELSE (IF isBingoGoal(Head(jsons).goal) THEN <<Head(jsons)>> ELSE <<>>)
            \o filterNonBingos(Tail(jsons))

\* what Race(raceJson) holds of the race once its board is loaded, and
\* writeToCsv writes
Race(raceJson) ==
    [raceid |-> raceJson.id,
     seed |-> getBingoSeed(raceJson.goal),
     version |-> getBingoVersionAt(raceJson.date)]

\* the slot of a race a worker has not returned yet
NoRace == [raceid |-> 0, seed |-> None, version |-> ""]

\* a mutation of countChanged: the second count is not compared
countChangedNever(before, after) == FALSE

\* raceCountBefore != getRaceCount() (src/bingoloader.py:62)
countChanged(before, after) == before # after

\* a mutation of PoolMap: the results in the order the workers returned them
PoolMapUnordered(results, order) ==
    [k \in 1..Len(order) |-> results[order[k]]]

\* threadPool.map(Race, bingoJsons): the results in the order of bingoJsons,
\* whatever the order the workers returned them in
PoolMap(results, order) == results

\* the single-threaded path: [Race(bingoJson) for bingoJson in bingoJsons]
SequentialRaces(jsons) == [k \in 1..Len(jsons) |-> Race(jsons[k])]

InitMain ==
    /\ feed = <<>>
    /\ storeFile = NoFile
    /\ outFile = <<>>
    /\ pc = "idle"
    /\ lastIndex = 0
    /\ raceCountBefore = 0
    /\ raceJsons = <<>>
    /\ bingoJsons = <<>>
    /\ races = <<>>
    /\ doneOrder = <<>>
    /\ boardRequests = {}
    /\ retried = FALSE
    /\ startOut = <<>>
    /\ startStore = NoFile
    /\ phase = "main"
    /\ IdleResult /\ IdleGoal /\ IdleVersion

\* a race ends and the feed gains it
FeedAdd ==
    /\ Len(feed) < MaxRaces
    /\ \E r \in RaceChoices : feed' = Append(feed, r)
    /\ UNCHANGED <<pureVars, storeFile, outFile, runVars>>

\* the same against the feed that also loses races
FeedGain ==
    /\ Len(feed) < MaxFairRaces
    /\ \E r \in RaceChoices : feed' = Append(feed, r)
    /\ UNCHANGED <<pureVars, storeFile, outFile, runVars>>

\* the feed loses its most recent race (a race taken back), never one at or
\* below a checkpoint the program holds
FeedRemove ==
    /\ Len(feed) > 0
    /\ storeFile # NoFile => getRaceCount - 1 >= storeFile[1]
    /\ pc \notin {"idle", "exit", "aborted"} => getRaceCount - 1 >= lastIndex
    /\ feed' = SubSeq(feed, 1, Len(feed) - 1)
    /\ UNCHANGED <<pureVars, storeFile, outFile, runVars>>

\* an invocation begins: the last index is read from STORE_FILE, or is
\* DEFAULT_START without the file (lines 217-223)
Start ==
    /\ pc \in {"idle", "exit", "aborted"}
    /\ lastIndex' = (IF storeFile # NoFile THEN storeFile[1] ELSE DEFAULT_START)
    /\ pc' = "countBefore"
    /\ raceCountBefore' = 0
    /\ raceJsons' = <<>>
    /\ bingoJsons' = <<>>
    /\ races' = <<>>
    /\ doneOrder' = <<>>
    /\ boardRequests' = {}
    /\ retried' = FALSE
    /\ startOut' = outFile
    /\ startStore' = storeFile
    /\ UNCHANGED <<pureVars, pureVars, envVars>>

\* getRaceJsonsSince: raceCountBefore = getRaceCount() (line 55)
GetRaceCountBefore ==
    /\ pc = "countBefore"
    /\ raceCountBefore' = getRaceCount
    /\ pc' = "loadRaces"
    /\ UNCHANGED <<pureVars, envVars, lastIndex, raceJsons, bingoJsons,
                   races, doneOrder,
                   boardRequests, retried, startOut, startStore>>

\* getRaceJsonsSince: the page of racesToLoad races is loaded (lines 56-59)
LoadRaces ==
    /\ pc = "loadRaces"
    /\ raceJsons' = PastRaces(raceCountBefore - lastIndex)
    /\ pc' = "countAfter"
    /\ UNCHANGED <<pureVars, envVars, lastIndex, raceCountBefore, bingoJsons,
                   races,
                   doneOrder, boardRequests, retried, startOut, startStore>>

\* getRaceJsonsSince: the count is read again; a change calls
\* getRaceJsonsSince(beginIndex) anew, with no limit (lines 62-66)
GetRaceCountAfter ==
    /\ pc = "countAfter"
    /\ IF countChanged(raceCountBefore, getRaceCount)
       THEN pc' = "countBefore" /\ retried' = TRUE
       ELSE pc' = "loaded" /\ retried' = retried
    /\ UNCHANGED <<pureVars, envVars, lastIndex, raceCountBefore, raceJsons,
                   bingoJsons,
                   races, doneOrder, boardRequests, startOut, startStore>>

\* a request to the feed raises: the exception reaches the except clause of
\* the main program (lines 269-272)
FeedFail ==
    /\ pc \in {"countBefore", "loadRaces", "countAfter"}
    /\ pc' = "aborted"
    /\ UNCHANGED <<pureVars, envVars, lastIndex, raceCountBefore, raceJsons,
                   bingoJsons,
                   races, doneOrder, boardRequests, retried, startOut,
                   startStore>>

\* numLoaded == 0 ends the invocation; otherwise the bingos are kept and
\* handed to the pool (lines 228-250)
FilterRaces ==
    /\ pc = "loaded"
    /\ IF Len(raceJsons) = 0
       THEN /\ pc' = "exit"
            /\ UNCHANGED <<pureVars, bingoJsons, races>>
       ELSE /\ bingoJsons' = filterNonBingos(raceJsons)
            /\ races' = [k \in 1..Len(bingoJsons') |-> NoRace]
            /\ pc' = "map"
    /\ UNCHANGED <<pureVars, envVars, lastIndex, raceCountBefore, raceJsons,
                   doneOrder,
                   boardRequests, retried, startOut, startStore>>

\* the races no worker has returned yet
Pending == {k \in 1..Len(bingoJsons) : races[k] = NoRace}

\* the board request of Race.__init__ (lines 115-117)
BoardRequest(raceJson) ==
    [seed |-> getBingoSeed(raceJson.goal),
     version |-> getBingoVersionAt(raceJson.date)]

\* a worker of the pool builds Race(bingoJsons[k]): it asks for the board
\* and returns the race (lines 111-118, 250)
WorkerRace ==
    /\ pc = "map"
    /\ NUM_THREADS > 1
    /\ \E k \in Pending :
        /\ boardRequests' = boardRequests \cup {BoardRequest(bingoJsons[k])}
        /\ races' = [races EXCEPT ![k] = Race(bingoJsons[k])]
        /\ doneOrder' = Append(doneOrder, k)
    /\ UNCHANGED <<pureVars, envVars, pc, lastIndex, raceCountBefore, raceJsons,
                   bingoJsons, retried, startOut, startStore>>

\* a mutation of WorkerFail: the races already built are written before the
\* invocation ends
WorkerFailPartial ==
    /\ pc = "map"
    /\ \E k \in Pending :
        boardRequests' = boardRequests \cup {BoardRequest(bingoJsons[k])}
    /\ outFile' = outFile \o [k \in 1..Len(doneOrder) |-> races[doneOrder[k]]]
    /\ pc' = "aborted"
    /\ UNCHANGED <<pureVars, feed, storeFile, lastIndex, raceCountBefore,
                   raceJsons,
                   bingoJsons, races, doneOrder, retried, startOut, startStore>>

\* the board request of a worker raises: threadPool.map raises it in the
\* main program, whose except clause ends the invocation (lines 250, 269-272)
WorkerFail ==
    /\ pc = "map"
    /\ \E k \in Pending :
        boardRequests' = boardRequests \cup {BoardRequest(bingoJsons[k])}
    /\ pc' = "aborted"
    /\ UNCHANGED <<pureVars, envVars, lastIndex, raceCountBefore, raceJsons,
                   bingoJsons,
                   races, doneOrder, retried, startOut, startStore>>

\* every race is built: the races are appended to OUT_FILE in the order of
\* the list, and lastIndex + numLoaded is written to STORE_FILE
\* (lines 256-267)
WriteAndStore ==
    /\ pc = "map"
    /\ Pending = {}
    /\ outFile' = outFile \o PoolMap(races, doneOrder)
    /\ lastIndex' = lastIndex + Len(raceJsons)
    /\ storeFile' = <<lastIndex'>>
    /\ pc' = "exit"
    /\ UNCHANGED <<pureVars, feed, raceCountBefore, raceJsons, bingoJsons,
                   races,
                   doneOrder, boardRequests, retried, startOut, startStore>>

\* the steps of the program that do not raise
Progress ==
    \/ Start
    \/ GetRaceCountBefore
    \/ LoadRaces
    \/ GetRaceCountAfter
    \/ FilterRaces
    \/ WorkerRace
    \/ WriteAndStore

Fail == FeedFail \/ WorkerFail

Next == FeedAdd \/ Progress \/ Fail

\* the program against a feed that only grows
Spec == InitMain /\ [][Next]_vars

NextFair == FeedGain \/ FeedRemove \/ Progress \/ Fail

\* the program against a feed whose count goes up and down; the program,
\* once started, keeps taking steps
SpecFair ==
    InitMain /\ [][NextFair]_vars /\ WF_vars(Progress)

----------------------------------------------------------------------------
(* Claims about the main program.                                          *)

\* the checkpoint STORE_FILE stands for
Checkpoint == IF storeFile # NoFile THEN storeFile[1] ELSE DEFAULT_START

\* the ids of the eligible races after the initial checkpoint, up to index n
EligibleUpTo(n) ==
    {i \in (DEFAULT_START + 1)..n : isBingoGoal(feed[i - DEFAULT_START].goal)}

\* how often the race of this id is in OUT_FILE
TimesExported(id) ==
    Cardinality({k \in 1..Len(outFile) : outFile[k].raceid = id})

\* C5: a race whose goal passes isBingoGoal and has no seed is left out of
\* the report, and no board is asked for with the undefined seed.
C5_NoBoardWithoutSeed ==
    /\ \A req \in boardRequests : req.seed # None
    /\ \A k \in 1..Len(outFile) : outFile[k].seed # None

\* C7: against a feed that only grows, OUT_FILE holds every eligible race
\* whose index is after the initial checkpoint and at or below the stored
\* one exactly once, and no other race; and an invocation that ends well
\* leaves the checkpoint at the count its accepted fetch read, the fetch
\* having loaded the races after the last index up to that count.
C7_ExactlyOnce ==
    /\ \A id \in EligibleUpTo(Checkpoint) : TimesExported(id) = 1
    /\ \A k \in 1..Len(outFile) : outFile[k].raceid \in EligibleUpTo(Checkpoint)
    /\ pc = "exit" => Checkpoint = raceCountBefore
    /\ pc \in {"loaded", "map"} =>
         /\ Len(raceJsons) = raceCountBefore - lastIndex
         /\ \A k \in 1..Len(raceJsons) :
              LET i == raceCountBefore - k + 1
              IN  /\ raceJsons[k].id = i
                  /\ raceJsons[k].goal = feed[i - DEFAULT_START].goal
                  /\ raceJsons[k].date = feed[i - DEFAULT_START].date

\* an invocation whose fetch was retried, after an earlier one had exported
\* races, has ended well and exported more
C7_Witness ==
    /\ pc = "exit"
    /\ retried
    /\ startOut # <<>>
    /\ Len(outFile) > Len(startOut)
    /\ Checkpoint = getRaceCount

\* C9: an invocation that a failing request ended has appended nothing to
\* OUT_FILE and has left STORE_FILE as it was, so the next one begins from
\* the same index.
C9_AbortLeavesFiles ==
    pc = "aborted" =>
        /\ outFile = startOut
        /\ storeFile = startStore
        /\ Checkpoint = lastIndex

\* a board request failed after another worker had returned its race
C9_Witness ==
    /\ pc = "aborted"
    /\ doneOrder # <<>>
    /\ boardRequests # {}

\* C10: whatever the order the workers return in, the invocation appends
\* the races in the order of the filtered list, each once: what the
\* single-threaded path appends.
C10_PoolOrder ==
    pc = "exit" =>
        /\ outFile = startOut \o SequentialRaces(bingoJsons)
        /\ \A k \in 1..Len(bingoJsons) :
             outFile[Len(startOut) + k].raceid = bingoJsons[k].id

\* the workers returned in another order than the list's and the races
\* were appended
C10_Witness ==
    /\ pc = "exit"
    /\ Len(bingoJsons) >= 2
    /\ doneOrder # [k \in 1..Len(bingoJsons) |-> k]
    /\ Len(outFile) = Len(startOut) + Len(bingoJsons)

\* C8: a fetch that has begun ends, whatever the feed does: the retries on
\* a changed count are bounded.
C8_FetchTerminates ==
    (pc = "countBefore") ~> (pc \in {"loaded", "aborted"})

====
